---- MODULE Spec2Model ----
(***************************************************************************)
(* Application shell of reqspace/risk-management (electron-app/src/main.js):*)
(* single-instance gate, first-run bootstrap (setup wizard, settings file), *)
(* worker supervisor (spawn, health gate, kill on shutdown) and the window  *)
(* lifecycle.                                                               *)
(*                                                                          *)
(* One action is one turn of the JavaScript event loop: a handler runs to   *)
(* completion, together with the promise continuations it releases, up to   *)
(* the next await of a dialog, a timer or a socket.  app.quit() emits       *)
(* 'before-quit' synchronously and only schedules the end of the process,   *)
(* so the code that follows it in the same turn still runs; once a quit has *)
(* been requested no later turn of this process is modelled except the      *)
(* 'ready' event of an instance that lost the lock, which the runtime may   *)
(* deliver before the process ends.                                         *)
(*                                                                          *)
(* Four specifications share the module.  Spec is the startup and shutdown  *)
(* sequence.  SpecStore applies the configuration store (getDataFolderPath, *)
(* saveDataFolderPath) to every config.json and folder state.  SpecMs and   *)
(* SpecGoogle are the sign-in brokers behind the microsoft-* and google-*   *)
(* IPC channels, taken with the window open; each leaves the variables of   *)
(* the others at rest.                                                      *)
(***************************************************************************)
EXTENDS Naturals, FiniteSets, Sequences

VARIABLES
  platform,      \* process.platform: "darwin" or "other"
  gotTheLock,    \* result of app.requestSingleInstanceLock()
  launches,      \* number of processes started so far
  config,        \* <userData>/config.json
  dirs,          \* which folders exist on disk
  env,           \* content of <folder>/.env, per folder
  startDisk,     \* the disk as it was when this process started
  pc,            \* position of the whenReady sequence
  quitting,      \* app.quit() has been requested in this process
  quitCause,     \* what requested the quit
  dialogs,       \* setup-wizard dialogs shown by this process
  wizFolder,     \* runSetupWizard's local dataFolder
  wroteConfig,   \* this process wrote config.json
  wroteEnv,      \* this process created a settings file
  cancelled,     \* the wizard was left through Quit / Cancel Setup
  envPath,       \* argument given to startPythonServer
  worker,        \* pythonProcess and the child behind it
  errorPending,  \* the child's 'error' event is queued (spawn failed)
  startPromise,  \* the promise returned by startPythonServer
  rejectReason,  \* why it was rejected
  polls,         \* health polls issued so far
  pollState,     \* "idle", "inflight" (request sent) or "timer" (retry pending)
  okAt,          \* number of the first poll the endpoint answered with 200
  windows,       \* BrowserWindow.getAllWindows().length
  errorBox       \* the Startup Error box was shown

VARIABLES
  lastSaved,     \* argument of the last completed saveDataFolderPath
  savedRest,     \* the other fields config.json held when that call began
  resolved       \* what getDataFolderPath returned for the disk as it is now

storeVars == <<lastSaved, savedRest, resolved>>

VARIABLES
  now,           \* the clock (new Date(), Date.now())
  msalClient,    \* msalClient is set (initializeMsal has run)
  msCache,       \* MSAL's in-memory token cache: one entry per account
  msTokens,      \* <userData>/ms-tokens.json
  envEmail,      \* MS_USER_EMAIL in the settings file of the data folder
  msCalls,       \* signInWithMicrosoft / refreshMicrosoftToken calls so far
  msCall,        \* the latest such call: where it stands, what it did
  msResult,      \* what that call returned
  msDialogs,     \* calls whose device-code dialog is still open
  msReply        \* what the latest getMicrosoftAccount / signOutMicrosoft returned

msVars == <<now, msalClient, msCache, msTokens, envEmail, msCalls, msCall, msResult,
            msDialogs, msReply>>

VARIABLES
  gClient,       \* googleOAuth2Client is set
  gTokens,       \* <userData>/google-tokens.json
  gCalls,        \* signInWithGoogle calls so far
  gFlow,         \* the latest such call: its listener, timer and handlers
  gResult,       \* what its promise resolved with
  gOrphans,      \* code exchanges of earlier calls that are still running
  gReply         \* what the latest getGoogleAccount / signOutGoogle returned

gVars == <<gClient, gTokens, gCalls, gFlow, gResult, gOrphans, gReply>>

\* Everything outside the startup and shutdown sequence.
brokerVars == <<storeVars, msVars, gVars>>

diskVars == <<config, dirs, env>>
wizardVars == <<dialogs, wizFolder, wroteConfig, wroteEnv, cancelled>>
serverVars == <<envPath, errorPending, startPromise, rejectReason, polls, pollState, okAt>>
vars == <<platform, gotTheLock, launches, config, dirs, env, startDisk, pc, quitting,
          quitCause, dialogs, wizFolder, wroteConfig, wroteEnv, cancelled, envPath,
          worker, errorPending, startPromise, rejectReason, polls, pollState, okAt,
          windows, errorBox>>

\* Bound: how many times the application is started in one behaviour.
MaxLaunches == 2

\* waitForServer's maxAttempts.
maxAttempts == 60

Platforms == {"darwin", "other"}
\* userData is the application's own config directory (the legacy settings
\* location); home is <home>/Risk Management; custom is a folder picked in the
\* browse dialog.
Folders == {"userData", "home", "custom"}
DataFolders == {"home", "custom"}
EnvContents == {"none", "template", "user"}
Statuses == {"200", "500", "error"}

\* config.json: whether the file exists, whether JSON.parse accepts it, its
\* dataFolder field and how many other fields it holds.
NoConfig == [exists |-> FALSE, parses |-> FALSE, dataFolder |-> "unset", rest |-> "none"]
ConfigRests == {"none", "one", "two"}
ConfigFiles ==
  {NoConfig, [NoConfig EXCEPT !.exists = TRUE]}
    \cup [exists : {TRUE}, parses : {TRUE},
          dataFolder : DataFolders \cup {"unset"}, rest : ConfigRests]
NoWorker == [proc |-> "undefined", state |-> "none", killed |-> FALSE, err |-> FALSE]

----------------------------------------------------------------------------
(* Configuration store *)

getAppConfigPath == "userData"

\* The folder runSetupWizard offers as the default location.
defaultFolder == "home"

getDataFolderPath_homeDefault(cfg, d) ==
  IF cfg.exists /\ cfg.parses /\ cfg.dataFolder # "unset" /\ d[cfg.dataFolder]
    THEN cfg.dataFolder
    ELSE defaultFolder

getDataFolderPath(cfg, d) ==
  IF cfg.exists /\ cfg.parses /\ cfg.dataFolder # "unset" /\ d[cfg.dataFolder]
    THEN cfg.dataFolder
    ELSE getAppConfigPath

saveDataFolderPath_fresh(cfg, folderPath) ==
  [exists |-> TRUE, parses |-> TRUE, dataFolder |-> folderPath, rest |-> "none"]

\* let config = {}; replaced by the parsed file when there is one that
\* parses; config.dataFolder = folderPath; the object is written back.
saveDataFolderPath(cfg, folderPath) ==
  LET parsed == IF cfg.exists /\ cfg.parses THEN cfg ELSE NoConfig
  IN  [exists |-> TRUE, parses |-> TRUE, dataFolder |-> folderPath, rest |-> parsed.rest]

isFirstRun(cfg) == ~cfg.exists


----------------------------------------------------------------------------
(* First-run bootstrap *)

\* Faulty variant: the template is written without the existsSync test.
WriteTemplate_always(e, f) == [e EXCEPT ![f] = "template"]

\* runSetupWizard, step 3: the template is written only where no .env exists.
WriteTemplate(e, f) ==
  IF e[f] = "none" THEN [e EXCEPT ![f] = "template"] ELSE e

\* fs.copyFileSync(oldEnvPath, envPath)
copyFileSync(e, from, to) == [e EXCEPT ![to] = e[from]]

\* Faulty variant: a missing settings file goes to the wizard without the
\* look into the legacy location.
ensureEnvFile_noMigration(cfg, d, e) ==
  IF isFirstRun(cfg) THEN "wizard"
  ELSE IF e[getDataFolderPath(cfg, d)] # "none" THEN "use"
  ELSE "wizard"

\* The branch ensureEnvFile takes: "wizard" (runSetupWizard), "migrate" (copy
\* the legacy file, then use it) or "use" (the settings file is there).
ensureEnvFile(cfg, d, e) ==
  IF isFirstRun(cfg) THEN "wizard"
  ELSE LET dataFolder == getDataFolderPath(cfg, d) IN
       IF e[dataFolder] # "none" THEN "use"
       ELSE IF e[getAppConfigPath] # "none" THEN "migrate"
       ELSE "wizard"

----------------------------------------------------------------------------
(* Worker supervisor *)

\* spawn(): the ChildProcess object is returned whether or not the child
\* could be started; a failure is reported later by the 'error' event.
spawn(w, ok) ==
  [w EXCEPT !.proc = "set", !.state = IF ok THEN "running" ELSE "failed",
            !.killed = FALSE]

\* Faulty variant: kill() is called without the test of pythonProcess, which
\* throws while pythonProcess is undefined.
KillStep_noGuard(w) ==
  IF w.proc = "undefined" THEN [w EXCEPT !.err = TRUE]
  ELSE IF w.state = "running" THEN [w EXCEPT !.killed = TRUE] ELSE w

\* if (pythonProcess) { pythonProcess.kill(); } -- kill() signals a child that
\* is still there and returns false for one that never started or has exited.
KillStep(w) ==
  IF w.proc = "set"
    THEN IF w.state = "running" THEN [w EXCEPT !.killed = TRUE] ELSE w
    ELSE w

\* Faulty variant: the budget is tested before the status, so the answer to
\* the 60th poll is never looked at.
waitForServer_budgetFirst(status, attempts) ==
  IF attempts + 1 >= maxAttempts THEN "reject"
  ELSE IF status = "200" THEN "resolve"
  ELSE "retry"

\* Faulty variant: a 200 does not end the polling while budget is left.
waitForServer_keepsPolling(status, attempts) ==
  IF attempts < maxAttempts THEN "retry"
  ELSE IF status = "200" THEN "resolve"
  ELSE "reject"

\* Faulty variant: a non-200 response is taken as fatal instead of retried.
waitForServer_rejectsNon200(status, attempts) ==
  IF status = "200" THEN "resolve"
  ELSE IF status = "error" /\ attempts < maxAttempts THEN "retry"
  ELSE "reject"

\* What waitForServer does with the answer to the poll issued with the given
\* value of attempts: "resolve", "retry" (setTimeout for attempts + 1) or
\* "reject".
waitForServer(status, attempts) ==
  IF status = "200" THEN "resolve"
  ELSE IF attempts < maxAttempts THEN "retry"
  ELSE "reject"

\* startPythonServer(envPath): spawn, register the handlers, issue the first
\* poll (waitForServer with attempts = 0).
startPythonServer(p, ok, w) ==
  /\ envPath' = p
  /\ worker' = spawn(w, ok)
  /\ errorPending' = ~ok
  /\ startPromise' = "pending"
  /\ rejectReason' = "none"
  /\ polls' = 1
  /\ pollState' = "inflight"
  /\ okAt' = okAt
  /\ pc' = "starting"

\* The catch block of the whenReady sequence: error box, then app.quit(),
\* whose 'before-quit' handler runs the kill step.
StartupError ==
  /\ errorBox' = TRUE
  /\ quitting' = TRUE
  /\ quitCause' = "startupError"
  /\ worker' = KillStep(worker)
  /\ pc' = "failed"

\* Nobody has called into the configuration store or the sign-in broker.
StoreIdle ==
  /\ lastSaved = "unset"
  /\ savedRest = "none"
  /\ resolved = "none"

\* What every broker operation answers with.  error says whether the answer
\* carries an error string and reason which one.  The other fields describe
\* the moment of the answer: fileOk, whether the session file held the
\* answer's account (for a sign-in, with the token and expiry just
\* acquired); envOk, whether MS_USER_EMAIL held its address; sessionLeft,
\* whether a session file was on disk; due, whether the clock had reached
\* the persisted expiry.
NoReply ==
  [op |-> "none", success |-> FALSE, error |-> FALSE, reason |-> "none",
   account |-> "none", accessToken |-> 0, isExpired |-> "absent", fileOk |-> FALSE,
   envOk |-> FALSE, sessionLeft |-> FALSE, due |-> FALSE]

NoTokens ==
  [exists |-> FALSE, parses |-> FALSE, account |-> "none", accessToken |-> 0,
   hasExpiry |-> FALSE, expiresOn |-> 0]

NoCall ==
  [id |-> 0, op |-> "none", at |-> "idle", hadAccount |-> FALSE,
   silentTried |-> FALSE, silentFailed |-> FALSE, codeIssued |-> FALSE,
   copied |-> FALSE, opened |-> FALSE, succeeded |-> 0, failed |-> 0]

MsIdle ==
  /\ now = 0
  /\ msalClient = FALSE
  /\ msCache = <<>>
  /\ msTokens = NoTokens
  /\ envEmail = "unset"
  /\ msCalls = 0
  /\ msCall = NoCall
  /\ msResult = NoReply
  /\ msDialogs = {}
  /\ msReply = NoReply

NoFlow ==
  [id |-> 0, listener |-> "none", timer |-> "none", browser |-> FALSE,
   uncaught |-> FALSE, requests |-> 0, strays |-> 0, firstCallback |-> "none",
   errorPages |-> 0,
   failPages |-> 0,
   inflight |-> 0, exchanges |-> 0, saves |-> 0, closes |-> 0, resolves |-> 0,
   overlap |-> FALSE]

GoogleIdle ==
  /\ gClient = FALSE
  /\ gTokens = NoTokens
  /\ gCalls = 0
  /\ gFlow = NoFlow
  /\ gResult = NoReply
  /\ gOrphans = 0
  /\ gReply = NoReply

BrokerIdle == StoreIdle /\ MsIdle /\ GoogleIdle

----------------------------------------------------------------------------
Init ==
  /\ BrokerIdle
  /\ platform \in Platforms
  /\ gotTheLock \in BOOLEAN
  /\ launches = 1
  /\ config = NoConfig
  /\ dirs = [f \in Folders |-> f # "home"]
  /\ \E legacy \in {"none", "user"} :
       env = [f \in Folders |-> IF f = "userData" THEN legacy ELSE "none"]
  /\ startDisk = [config |-> config, dirs |-> dirs, env |-> env]
  /\ pc = "loaded"
  /\ quitting = ~gotTheLock
  /\ quitCause = IF gotTheLock THEN "none" ELSE "lock"
  /\ dialogs = {}
  /\ wizFolder = "unset"
  /\ wroteConfig = FALSE
  /\ wroteEnv = FALSE
  /\ cancelled = FALSE
  /\ envPath = "unset"
  /\ worker = NoWorker
  /\ errorPending = FALSE
  /\ startPromise = "none"
  /\ rejectReason = "none"
  /\ polls = 0
  /\ pollState = "idle"
  /\ okAt = 0
  /\ windows = 0
  /\ errorBox = FALSE

\* app.whenReady().then(...): ensureEnvFile up to its first dialog, or all the
\* way into startPythonServer when no dialog is needed.
WhenReady ==
  /\ pc = "loaded"
  /\ UNCHANGED brokerVars
  /\ LET branch == ensureEnvFile(config, dirs, env)
         dataFolder == getDataFolderPath(config, dirs)
     IN  IF branch = "wizard"
           THEN /\ pc' = "welcome"
                /\ dialogs' = dialogs \cup {"welcome"}
                /\ UNCHANGED <<env, wroteEnv, serverVars, worker>>
           ELSE /\ env' = IF branch = "migrate"
                            THEN copyFileSync(env, getAppConfigPath, dataFolder)
                            ELSE env
                /\ wroteEnv' = (branch = "migrate")
                /\ \E ok \in BOOLEAN : startPythonServer(dataFolder, ok, worker)
                /\ UNCHANGED dialogs
  /\ UNCHANGED <<platform, gotTheLock, launches, config, dirs, startDisk, quitting,
                 quitCause, wizFolder, wroteConfig, cancelled, windows, errorBox>>

\* Quit at the Welcome dialog, Cancel Setup at the data-location dialog:
\* app.quit(); return null; -- and the whenReady sequence goes on with
\* startPythonServer(null).
WizardCancel ==
  /\ cancelled' = TRUE
  /\ quitting' = TRUE
  /\ quitCause' = "cancel"
  /\ \E ok \in BOOLEAN : startPythonServer("null", ok, KillStep(worker))
  /\ UNCHANGED <<platform, gotTheLock, launches, diskVars, startDisk, dialogs,
                 wizFolder, wroteConfig, wroteEnv, windows, errorBox>>

\* The folder is chosen: mkdir if needed, saveDataFolderPath, template, and
\* the "Data folder ready!" dialog.  mkdirSync may throw, which the whenReady
\* sequence catches.
WizardFolderChosen(f) ==
  \E ioOk \in BOOLEAN :
    IF ~dirs[f] /\ ~ioOk
      THEN /\ StartupError
           /\ wizFolder' = f
           /\ UNCHANGED <<platform, gotTheLock, launches, diskVars, startDisk, dialogs,
                          wroteConfig, wroteEnv, cancelled, serverVars, windows>>
      ELSE /\ (dirs[f] => ioOk)
           /\ dirs' = [dirs EXCEPT ![f] = TRUE]
           /\ config' = saveDataFolderPath(config, f)
           /\ env' = WriteTemplate(env, f)
           /\ wizFolder' = f
           /\ wroteConfig' = TRUE
           /\ wroteEnv' = (wroteEnv \/ env[f] = "none")
           /\ dialogs' = dialogs \cup {"complete"}
           /\ pc' = "complete"
           /\ UNCHANGED <<platform, gotTheLock, launches, startDisk, quitting, quitCause,
                          cancelled, serverVars, worker, windows, errorBox>>

WelcomeAnswer ==
  /\ pc = "welcome"
  /\ UNCHANGED brokerVars
  /\ ~quitting
  /\ \E response \in {0, 1} :
       IF response = 1
         THEN WizardCancel
         ELSE /\ pc' = "folder"
              /\ dialogs' = dialogs \cup {"folder"}
              /\ UNCHANGED <<platform, gotTheLock, launches, diskVars, startDisk,
                             quitting, quitCause, wizFolder, wroteConfig, wroteEnv,
                             cancelled, serverVars, worker, windows, errorBox>>

FolderAnswer ==
  /\ pc = "folder"
  /\ UNCHANGED brokerVars
  /\ ~quitting
  /\ \E response \in {0, 1, 2} :
       IF response = 2 THEN WizardCancel
       ELSE IF response = 0
         THEN /\ pc' = "browse"
              /\ dialogs' = dialogs \cup {"browse"}
              /\ UNCHANGED <<platform, gotTheLock, launches, diskVars, startDisk,
                             quitting, quitCause, wizFolder, wroteConfig, wroteEnv,
                             cancelled, serverVars, worker, windows, errorBox>>
         ELSE WizardFolderChosen("home")

\* The browse dialog: cancelled (the default folder is used) or a folder.
BrowseAnswer ==
  /\ pc = "browse"
  /\ UNCHANGED brokerVars
  /\ ~quitting
  /\ \E f \in DataFolders : WizardFolderChosen(f)

\* "Open Config File" or "Continue to App": return envPath, and on to
\* startPythonServer(envPath).
CompleteAnswer ==
  /\ pc = "complete"
  /\ UNCHANGED brokerVars
  /\ ~quitting
  /\ \E ok \in BOOLEAN : startPythonServer(wizFolder, ok, worker)
  /\ UNCHANGED <<platform, gotTheLock, launches, diskVars, startDisk, quitting,
                 quitCause, wizardVars, windows, errorBox>>

----------------------------------------------------------------------------
(* Health gate *)

\* pythonProcess.on('error'): reject(err).  The event of a failed spawn is
\* emitted on the next tick, before any poll is answered.
ChildError ==
  /\ errorPending
  /\ UNCHANGED brokerVars
  /\ ~quitting
  /\ errorPending' = FALSE
  /\ IF startPromise = "pending"
       THEN /\ startPromise' = "rejected"
            /\ rejectReason' = "childError"
            /\ StartupError
       ELSE UNCHANGED <<startPromise, rejectReason, errorBox, quitting, quitCause,
                        worker, pc>>
  /\ UNCHANGED <<platform, gotTheLock, launches, diskVars, startDisk, wizardVars,
                 envPath, polls, pollState, okAt, windows>>

\* The poll in flight is answered: a response with a status, or a connection
\* error.  resolve() releases the whenReady sequence, which creates the
\* window; reject() takes it to its catch block.
PollAnswer ==
  /\ pollState = "inflight"
  /\ UNCHANGED brokerVars
  /\ ~quitting
  /\ ~errorPending
  /\ \E status \in Statuses :
       LET outcome == waitForServer(status, polls - 1) IN
       /\ okAt' = IF status = "200" /\ okAt = 0 THEN polls ELSE okAt
       /\ pollState' = IF outcome = "retry" THEN "timer" ELSE "idle"
       /\ IF outcome = "resolve" /\ startPromise = "pending"
            THEN /\ startPromise' = "resolved"
                 /\ windows' = windows + 1
                 /\ pc' = "running"
                 /\ UNCHANGED <<rejectReason, errorBox, quitting, quitCause, worker>>
          ELSE IF outcome = "reject" /\ startPromise = "pending"
            THEN /\ startPromise' = "rejected"
                 /\ rejectReason' = "timeout"
                 /\ StartupError
                 /\ UNCHANGED windows
          ELSE UNCHANGED <<startPromise, rejectReason, errorBox, quitting, quitCause,
                           worker, pc, windows>>
  /\ UNCHANGED <<platform, gotTheLock, launches, diskVars, startDisk, wizardVars,
                 envPath, errorPending, polls>>

\* setTimeout(() => waitForServer(resolve, reject, attempts + 1), 1000)
RetryTimer ==
  /\ pollState = "timer"
  /\ UNCHANGED brokerVars
  /\ ~quitting
  /\ polls' = polls + 1
  /\ pollState' = "inflight"
  /\ UNCHANGED <<platform, gotTheLock, launches, diskVars, startDisk, pc, quitting,
                 quitCause, wizardVars, envPath, worker, errorPending, startPromise,
                 rejectReason, okAt, windows, errorBox>>

\* The child ends, by itself or after the signal; 'close' is only logged.
WorkerExits ==
  /\ worker.state = "running"
  /\ UNCHANGED brokerVars
  /\ pc # "exited"
  /\ worker' = [worker EXCEPT !.state = "exited"]
  /\ UNCHANGED <<platform, gotTheLock, launches, diskVars, startDisk, pc, quitting,
                 quitCause, wizardVars, serverVars, windows, errorBox>>

----------------------------------------------------------------------------
(* Window and application lifecycle *)

AfterReady == {"welcome", "folder", "browse", "complete", "starting", "running"}

\* app.on('activate') (macOS): createWindow() when there is no window.
Activate ==
  /\ platform = "darwin"
  /\ UNCHANGED brokerVars
  /\ pc \in AfterReady
  /\ ~quitting
  /\ windows = 0
  /\ windows' = 1
  /\ UNCHANGED <<platform, gotTheLock, launches, diskVars, startDisk, pc, quitting,
                 quitCause, wizardVars, serverVars, worker, errorBox>>

\* The user closes a window; with the last one 'window-all-closed' runs the
\* kill step and, off macOS, app.quit() with its 'before-quit' kill step.
CloseWindow ==
  /\ windows > 0
  /\ UNCHANGED brokerVars
  /\ ~quitting
  /\ windows' = windows - 1
  /\ IF windows = 1
       THEN IF platform # "darwin"
              THEN /\ worker' = KillStep(KillStep(worker))
                   /\ quitting' = TRUE
                   /\ quitCause' = "windowsClosed"
              ELSE /\ worker' = KillStep(worker)
                   /\ UNCHANGED <<quitting, quitCause>>
       ELSE UNCHANGED <<worker, quitting, quitCause>>
  /\ UNCHANGED <<platform, gotTheLock, launches, diskVars, startDisk, pc, wizardVars,
                 serverVars, errorBox>>

\* An explicit quit (menu, Cmd+Q): 'before-quit' runs the kill step.
UserQuit ==
  /\ pc \in AfterReady
  /\ UNCHANGED brokerVars
  /\ ~quitting
  /\ worker' = KillStep(worker)
  /\ quitting' = TRUE
  /\ quitCause' = "userQuit"
  /\ UNCHANGED <<platform, gotTheLock, launches, diskVars, startDisk, pc, wizardVars,
                 serverVars, windows, errorBox>>

\* 'update-downloaded', Restart: autoUpdater.quitAndInstall() closes the
\* windows ('window-all-closed') and then quits ('before-quit').
UpdateRestart ==
  /\ pc = "running"
  /\ UNCHANGED brokerVars
  /\ windows > 0
  /\ ~quitting
  /\ windows' = 0
  /\ worker' = KillStep(KillStep(worker))
  /\ quitting' = TRUE
  /\ quitCause' = "update"
  /\ UNCHANGED <<platform, gotTheLock, launches, diskVars, startDisk, pc, wizardVars,
                 serverVars, errorBox>>

\* The exit code of the process: every way out of the shell is app.quit(),
\* which ends the process with code 0; app.exit(code) is never called.
exitCode(cause) == 0

\* The process ends; nothing of it runs any more.
ShellExit ==
  /\ quitting
  /\ UNCHANGED brokerVars
  /\ pc # "exited"
  /\ pc' = "exited"
  /\ windows' = 0
  /\ UNCHANGED <<platform, gotTheLock, launches, diskVars, startDisk, quitting,
                 quitCause, wizardVars, serverVars, worker, errorBox>>

\* The application is started again; the disk is what the earlier runs and
\* the user left.
Relaunch ==
  /\ pc = "exited"
  /\ UNCHANGED brokerVars
  /\ launches < MaxLaunches
  /\ launches' = launches + 1
  /\ gotTheLock' \in BOOLEAN
  /\ startDisk' = [config |-> config, dirs |-> dirs, env |-> env]
  /\ pc' = "loaded"
  /\ quitting' = ~gotTheLock'
  /\ quitCause' = IF gotTheLock' THEN "none" ELSE "lock"
  /\ dialogs' = {}
  /\ wizFolder' = "unset"
  /\ wroteConfig' = FALSE
  /\ wroteEnv' = FALSE
  /\ cancelled' = FALSE
  /\ envPath' = "unset"
  /\ worker' = NoWorker
  /\ errorPending' = FALSE
  /\ startPromise' = "none"
  /\ rejectReason' = "none"
  /\ polls' = 0
  /\ pollState' = "idle"
  /\ okAt' = 0
  /\ windows' = 0
  /\ errorBox' = FALSE
  /\ UNCHANGED <<platform, diskVars>>

----------------------------------------------------------------------------
(* What the user does to the files between two runs: the edits are placed *)
(* where the new process has started and has not yet read the disk.       *)

BetweenRuns == pc = "loaded"

processVars == <<platform, gotTheLock, launches, pc, quitting, quitCause,
                 wizardVars, serverVars, worker, windows, errorBox>>

Disk(c, d, e) == [config |-> c, dirs |-> d, env |-> e]

UserDeletesEnv ==
  /\ BetweenRuns
  /\ UNCHANGED brokerVars
  /\ \E f \in Folders :
       /\ env[f] # "none"
       /\ env' = [env EXCEPT ![f] = "none"]
  /\ startDisk' = Disk(config, dirs, env')
  /\ UNCHANGED <<config, dirs, processVars>>

UserEditsEnv ==
  /\ BetweenRuns
  /\ UNCHANGED brokerVars
  /\ \E f \in Folders :
       /\ env[f] = "template"
       /\ env' = [env EXCEPT ![f] = "user"]
  /\ startDisk' = Disk(config, dirs, env')
  /\ UNCHANGED <<config, dirs, processVars>>

UserDeletesDataFolder ==
  /\ BetweenRuns
  /\ UNCHANGED brokerVars
  /\ \E f \in DataFolders :
       /\ dirs[f]
       /\ dirs' = [dirs EXCEPT ![f] = FALSE]
       /\ env' = [env EXCEPT ![f] = "none"]
  /\ startDisk' = Disk(config, dirs', env')
  /\ UNCHANGED <<config, processVars>>

UserClearsConfig ==
  /\ BetweenRuns
  /\ UNCHANGED brokerVars
  /\ config.exists
  /\ config' = NoConfig
  /\ startDisk' = Disk(config', dirs, env)
  /\ UNCHANGED <<dirs, env, processVars>>

----------------------------------------------------------------------------
Next ==
  \/ WhenReady
  \/ WelcomeAnswer
  \/ FolderAnswer
  \/ BrowseAnswer
  \/ CompleteAnswer
  \/ ChildError
  \/ PollAnswer
  \/ RetryTimer
  \/ WorkerExits
  \/ Activate
  \/ CloseWindow
  \/ UserQuit
  \/ UpdateRestart
  \/ ShellExit
  \/ Relaunch
  \/ UserDeletesEnv
  \/ UserEditsEnv
  \/ UserDeletesDataFolder
  \/ UserClearsConfig

----------------------------------------------------------------------------
(* The configuration store on its own: getDataFolderPath and               *)
(* saveDataFolderPath applied to every config.json and folder state.  The   *)
(* functions keep nothing in memory, so a call in a new process sees what a *)
(* call in the same process sees: the disk.                                 *)

\* The shell with its window open, as the first run leaves it.
ShellRunning ==
  /\ platform = "other"
  /\ gotTheLock = TRUE
  /\ launches = 1
  /\ pc = "running"
  /\ quitting = FALSE
  /\ quitCause = "none"
  /\ dialogs = {"welcome", "folder", "complete"}
  /\ wizFolder = defaultFolder
  /\ wroteConfig = TRUE
  /\ wroteEnv = TRUE
  /\ cancelled = FALSE
  /\ envPath = defaultFolder
  /\ worker = [NoWorker EXCEPT !.proc = "set", !.state = "running"]
  /\ errorPending = FALSE
  /\ startPromise = "resolved"
  /\ rejectReason = "none"
  /\ polls = 1
  /\ pollState = "idle"
  /\ okAt = 1
  /\ windows = 1
  /\ errorBox = FALSE

StoreInit ==
  /\ ShellRunning
  /\ config \in ConfigFiles
  /\ dirs \in {d \in [Folders -> BOOLEAN] : d[getAppConfigPath]}
  /\ env = [f \in Folders |-> "none"]
  /\ startDisk = Disk(NoConfig, [f \in Folders |-> f # defaultFolder], env)
  /\ BrokerIdle

\* A caller asks for the data folder.
Resolve ==
  /\ resolved' = getDataFolderPath(config, dirs)
  /\ UNCHANGED <<vars, lastSaved, savedRest, msVars, gVars>>

\* runSetupWizard's "ensure the folder exists" and saveDataFolderPath.
SavePath(folderPath) ==
  /\ dirs' = [dirs EXCEPT ![folderPath] = TRUE]
  /\ config' = saveDataFolderPath(config, folderPath)
  /\ lastSaved' = folderPath
  /\ savedRest' = IF config.exists /\ config.parses THEN config.rest ELSE "none"
  /\ resolved' = "none"
  /\ UNCHANGED <<env, startDisk, processVars>>
  /\ UNCHANGED <<msVars, gVars>>

\* The user removes or moves a data folder.
FolderRemoved(f) ==
  /\ dirs[f]
  /\ dirs' = [dirs EXCEPT ![f] = FALSE]
  /\ resolved' = "none"
  /\ UNCHANGED <<config, env, startDisk, processVars, lastSaved, savedRest>>
  /\ UNCHANGED <<msVars, gVars>>

\* Something other than saveDataFolderPath rewrites or deletes config.json.
ConfigEdited(c) ==
  /\ c # config
  /\ config' = c
  /\ lastSaved' = "unset"
  /\ savedRest' = "none"
  /\ resolved' = "none"
  /\ UNCHANGED <<dirs, env, startDisk, processVars>>
  /\ UNCHANGED <<msVars, gVars>>

StoreNext ==
  \/ Resolve
  \/ \E folderPath \in DataFolders : SavePath(folderPath)
  \/ \E f \in DataFolders : FolderRemoved(f)
  \/ \E c \in ConfigFiles : ConfigEdited(c)

allVars == <<vars, brokerVars>>

SpecStore == StoreInit /\ [][StoreNext]_allVars

----------------------------------------------------------------------------
(* Microsoft sign-in broker.  The broker code is read in the version that   *)
(* also holds the Google flow (its deviceCodeCallback copies the code to    *)
(* the clipboard before the dialog is shown).  A network await             *)
(* (acquireTokenSilent, acquireTokenByDeviceCode) ends a turn; awaits that  *)
(* only touch memory or the local disk do not.                              *)

Accounts == {"alice", "bob"}

\* Bound: signInWithMicrosoft and refreshMicrosoftToken calls in a behaviour.
MaxCalls == 2
\* Bound: how far the clock runs.
MaxTime == 2
\* How long an access token lives, in clock steps.
TokenLife == 1

AuthResult(account, accessToken, expiresOn) ==
  [account |-> account, accessToken |-> accessToken, expiresOn |-> expiresOn]

\* getMsalAccounts: [] without a client, else the cached accounts in order.
getMsalAccounts(client, cache) ==
  IF ~client THEN <<>> ELSE [i \in 1..Len(cache) |-> cache[i].account]

\* The cache after a token was acquired for the account of authResult.
CachePut(cache, authResult) ==
  IF \E i \in 1..Len(cache) : cache[i].account = authResult.account
    THEN [i \in 1..Len(cache) |->
            IF cache[i].account = authResult.account THEN authResult ELSE cache[i]]
    ELSE Append(cache, authResult)

firstStep_deviceFirst(accounts) == "device"

\* signInWithMicrosoft up to its first network await: the silent attempt
\* when an account is cached, else the device-code request.
firstStep(accounts) == IF Len(accounts) > 0 THEN "silent" ELSE "device"

afterSilent_fallsThrough(ok) == "device"

\* signInWithMicrosoft after acquireTokenSilent: return, or fall through to
\* the device-code request.
afterSilent(ok) == IF ok THEN "idle" ELSE "device"

\* The settings file saveMicrosoftTokens looks for.
MsEnvExists == env[getDataFolderPath(config, dirs)] # "none"

saveMicrosoftTokens_file(authResult) ==
  [exists |-> TRUE, parses |-> TRUE, account |-> authResult.account,
   accessToken |-> authResult.accessToken, hasExpiry |-> TRUE,
   expiresOn |-> authResult.expiresOn]

\* MS_USER_EMAIL is replaced or appended only when the settings file exists.
saveMicrosoftTokens_env(authResult, email, exists) ==
  IF exists THEN authResult.account ELSE email

\* new Date(tokenData.expiresOn) < new Date(); an absent expiresOn gives an
\* invalid date, which compares false.
getMicrosoftAccount(tok, t) ==
  IF tok.exists /\ tok.parses
    THEN [NoReply EXCEPT !.op = "getAccount", !.success = TRUE,
                         !.account = tok.account,
                         !.isExpired = IF tok.hasExpiry /\ tok.expiresOn < t
                                         THEN "true" ELSE "false",
                         !.fileOk = TRUE,
                         !.sessionLeft = TRUE,
                         !.due = (tok.hasExpiry /\ t >= tok.expiresOn)]
    ELSE [NoReply EXCEPT !.op = "getAccount", !.sessionLeft = tok.exists]

\* The answer of a sign-in or refresh, with the state of the disk at that
\* moment.
MsAnswer(op, authResult, tok, email, exists) ==
  [NoReply EXCEPT !.op = op, !.success = TRUE, !.account = authResult.account,
                  !.accessToken = authResult.accessToken,
                  !.fileOk = (tok = saveMicrosoftTokens_file(authResult)),
                  !.envOk = (exists /\ email = authResult.account),
                  !.sessionLeft = tok.exists]

MsFailure(op, tok) ==
  [NoReply EXCEPT !.op = op, !.error = TRUE, !.reason = "error",
                  !.sessionLeft = tok.exists]

shellVars == vars

\* microsoft-sign-in: signInWithMicrosoft up to its first network await.
MsSignIn ==
  /\ msCall.at = "idle"
  /\ msCalls < MaxCalls
  /\ LET accounts == getMsalAccounts(TRUE, msCache)
         first == firstStep(accounts)
     IN  msCall' = [NoCall EXCEPT !.id = msCalls + 1, !.op = "signIn", !.at = first,
                                  !.hadAccount = (Len(accounts) > 0),
                                  !.silentTried = (first = "silent")]
  /\ msalClient' = TRUE
  /\ msCalls' = msCalls + 1
  /\ msResult' = NoReply
  /\ UNCHANGED <<shellVars, storeVars, gVars, now, msCache, msTokens, envEmail, msDialogs,
                 msReply>>

\* microsoft-refresh-token: refreshMicrosoftToken up to acquireTokenSilent,
\* or its answer when no account is cached.
MsRefresh ==
  /\ msCall.at = "idle"
  /\ msCalls < MaxCalls
  /\ LET accounts == getMsalAccounts(TRUE, msCache)
     IN  IF Len(accounts) = 0
           THEN /\ msCall' = [NoCall EXCEPT !.id = msCalls + 1, !.op = "refresh",
                                            !.failed = 1]
                /\ msResult' = MsFailure("refresh", msTokens)
           ELSE /\ msCall' = [NoCall EXCEPT !.id = msCalls + 1, !.op = "refresh",
                                            !.at = "silent", !.hadAccount = TRUE,
                                            !.silentTried = TRUE]
                /\ msResult' = NoReply
  /\ msalClient' = TRUE
  /\ msCalls' = msCalls + 1
  /\ UNCHANGED <<shellVars, storeVars, gVars, now, msCache, msTokens, envEmail, msDialogs,
                 msReply>>

\* acquireTokenSilent answers, for accounts[0] as the cache holds it now:
\* the cached token while it has not expired, a refreshed one, or an error.
MsSilentAnswer ==
  /\ msCall.at = "silent"
  /\ \E outcome \in {"cached", "refreshed", "failed"} :
       LET ok == outcome # "failed"
           authResult == IF outcome = "cached"
                           THEN msCache[1]
                           ELSE AuthResult(msCache[1].account, msCall.id, now + TokenLife)
       IN  /\ ok => Len(msCache) > 0
           /\ outcome = "cached" => now < msCache[1].expiresOn
           /\ msCache' = IF ok THEN CachePut(msCache, authResult) ELSE msCache
           /\ IF msCall.op = "signIn"
                THEN /\ msCall' = [msCall EXCEPT
                                     !.at = afterSilent(ok),
                                     !.silentFailed = ~ok,
                                     !.succeeded = IF ok THEN @ + 1 ELSE @]
                     /\ msResult' = IF ok
                                      THEN MsAnswer("signIn", authResult, msTokens,
                                                    envEmail, MsEnvExists)
                                      ELSE msResult
                     /\ UNCHANGED <<msTokens, envEmail>>
                ELSE /\ msCall' = [msCall EXCEPT
                                     !.at = "idle",
                                     !.silentFailed = ~ok,
                                     !.succeeded = IF ok THEN @ + 1 ELSE @,
                                     !.failed = IF ok THEN @ ELSE @ + 1]
                     /\ msTokens' = IF ok THEN saveMicrosoftTokens_file(authResult)
                                          ELSE msTokens
                     /\ envEmail' = IF ok
                                      THEN saveMicrosoftTokens_env(authResult, envEmail,
                                                                   MsEnvExists)
                                      ELSE envEmail
                     /\ msResult' = IF ok
                                      THEN MsAnswer("refresh", authResult, msTokens',
                                                    envEmail', MsEnvExists)
                                      ELSE MsFailure("refresh", msTokens)
  /\ UNCHANGED <<shellVars, storeVars, gVars, now, msalClient, msCalls, msDialogs, msReply>>

\* deviceCodeCallback: the code is copied to the clipboard and the dialog
\* is shown.
MsDeviceCode ==
  /\ msCall.at = "device"
  /\ ~msCall.codeIssued
  /\ msCall' = [msCall EXCEPT !.codeIssued = TRUE, !.copied = TRUE]
  /\ msDialogs' = msDialogs \cup {msCall.id}
  /\ UNCHANGED <<shellVars, storeVars, gVars, now, msalClient, msCache, msTokens, envEmail,
                 msCalls, msResult, msReply>>

\* acquireTokenByDeviceCode answers: the user signed in with the code, or
\* the request failed (no network, code declined or expired).
MsDeviceAnswer ==
  /\ msCall.at = "device"
  /\ \E ok \in BOOLEAN, a \in Accounts :
       LET authResult == AuthResult(a, msCall.id, now + TokenLife)
       IN  /\ ok => msCall.codeIssued
           /\ msCache' = IF ok THEN CachePut(msCache, authResult) ELSE msCache
           /\ msTokens' = IF ok THEN saveMicrosoftTokens_file(authResult) ELSE msTokens
           /\ envEmail' = IF ok
                            THEN saveMicrosoftTokens_env(authResult, envEmail, MsEnvExists)
                            ELSE envEmail
           /\ msResult' = IF ok
                            THEN MsAnswer("signIn", authResult, msTokens', envEmail',
                                          MsEnvExists)
                            ELSE MsFailure("signIn", msTokens)
           /\ msCall' = [msCall EXCEPT !.at = "idle",
                                       !.succeeded = IF ok THEN @ + 1 ELSE @,
                                       !.failed = IF ok THEN @ ELSE @ + 1]
  /\ UNCHANGED <<shellVars, storeVars, gVars, now, msalClient, msCalls, msDialogs, msReply>>

\* The device-code dialog is answered: Open Browser, Copy Code Again or
\* Cancel.  What it does is recorded for the call that showed it.
MsDialogAnswer ==
  /\ \E i \in msDialogs, response \in 0..2 :
       /\ msDialogs' = msDialogs \ {i}
       /\ msCall' = IF i = msCall.id
                      THEN [msCall EXCEPT !.opened = @ \/ response \in {0, 1},
                                          !.copied = @ \/ response = 1]
                      ELSE msCall
  /\ UNCHANGED <<shellVars, storeVars, gVars, now, msalClient, msCache, msTokens, envEmail,
                 msCalls, msResult, msReply>>

\* microsoft-get-account.
MsGetAccount ==
  /\ msReply' = getMicrosoftAccount(msTokens, now)
  /\ UNCHANGED <<shellVars, storeVars, gVars, now, msalClient, msCache, msTokens, envEmail,
                 msCalls, msCall, msResult, msDialogs>>

\* microsoft-sign-out: unlink ms-tokens.json, then remove every cached
\* account; either step may throw into the catch.
MsSignOut ==
  /\ \E unlinkOk \in BOOLEAN, removeOk \in BOOLEAN :
       IF msTokens.exists /\ ~unlinkOk
         THEN /\ msReply' = MsFailure("signOut", msTokens)
              /\ UNCHANGED <<msTokens, msCache>>
         ELSE /\ msTokens' = NoTokens
              /\ IF msalClient /\ Len(msCache) > 0 /\ ~removeOk
                   THEN /\ msReply' = MsFailure("signOut", msTokens')
                        /\ UNCHANGED msCache
                   ELSE /\ msReply' = [NoReply EXCEPT !.op = "signOut", !.success = TRUE]
                        /\ msCache' = IF msalClient THEN <<>> ELSE msCache
  /\ UNCHANGED <<shellVars, storeVars, gVars, now, msalClient, envEmail, msCalls, msCall,
                 msResult, msDialogs>>

MsTick ==
  /\ now < MaxTime
  /\ now' = now + 1
  /\ UNCHANGED <<shellVars, storeVars, gVars, msalClient, msCache, msTokens, envEmail, msCalls,
                 msCall, msResult, msDialogs, msReply>>

\* ms-tokens.json is damaged on disk.
MsTokensDamaged ==
  /\ msTokens.exists /\ msTokens.parses
  /\ msTokens' = [NoTokens EXCEPT !.exists = TRUE]
  /\ UNCHANGED <<shellVars, storeVars, gVars, now, msalClient, msCache, envEmail, msCalls,
                 msCall, msResult, msDialogs, msReply>>

\* The settings file of the data folder is removed while the shell runs.
MsEnvRemoved ==
  /\ MsEnvExists
  /\ env' = [env EXCEPT ![getDataFolderPath(config, dirs)] = "none"]
  /\ envEmail' = "unset"
  /\ UNCHANGED <<platform, gotTheLock, launches, config, dirs, startDisk, pc, quitting,
                 quitCause, wizardVars, serverVars, worker, windows, errorBox>>
  /\ UNCHANGED <<storeVars, gVars, now, msalClient, msCache, msTokens, msCalls,
                 msCall, msResult, msDialogs, msReply>>

\* The shell after a first run that took the default folder.
MsInit ==
  /\ ShellRunning
  /\ config = saveDataFolderPath(NoConfig, defaultFolder)
  /\ dirs = [f \in Folders |-> TRUE]
  /\ env = WriteTemplate([f \in Folders |-> "none"], defaultFolder)
  /\ startDisk = Disk(NoConfig, [f \in Folders |-> f # defaultFolder],
                      [f \in Folders |-> "none"])
  /\ BrokerIdle

MsNext ==
  \/ MsSignIn
  \/ MsRefresh
  \/ MsSilentAnswer
  \/ MsDeviceCode
  \/ MsDeviceAnswer
  \/ MsDialogAnswer
  \/ MsGetAccount
  \/ MsSignOut
  \/ MsTick
  \/ MsTokensDamaged
  \/ MsEnvRemoved

SpecMs == MsInit /\ [][MsNext]_allVars

MsTypeOK ==
  /\ now \in 0..MaxTime
  /\ msalClient \in BOOLEAN
  /\ Len(msCache) <= Cardinality(Accounts)
  /\ \A i, j \in 1..Len(msCache) : msCache[i].account = msCache[j].account => i = j
  /\ msTokens.account \in Accounts \cup {"none"}
  /\ envEmail \in Accounts \cup {"unset"}
  /\ msCalls \in 0..MaxCalls
  /\ msCall.id = msCalls
  /\ msCall.at \in {"idle", "silent", "device"}
  /\ msDialogs \subseteq 1..MaxCalls
  /\ msReply.op \in {"none", "getAccount", "signOut"}
  /\ msResult.op \in {"none", "signIn", "refresh"}

----------------------------------------------------------------------------
(* Google sign-in broker: the authorization-code flow with its listener on *)
(* port 8089 and its five-minute timer.  gFlow is the latest call; what an  *)
(* earlier call still has in flight lives on in gOrphans.  The listener    *)
(* takes requests only between listen and the first server.close(); the    *)
(* bind is over long before the timer fires or another call is made.       *)

\* Bound: signInWithGoogle calls in a behaviour.
MaxFlows == 2
\* Bound: requests the listener of one call receives.
MaxRequests == 2

\* What a request to the listener looks like to the handler.
Requests == {"otherPath", "callbackNoCode", "callbackWithCode", "malformed"}

\* Faulty variant: a request for any other path is answered as a failed
\* callback.
handleRequest_rejectsOtherPaths(request) ==
  CASE request = "callbackNoCode" -> "noCode"
    [] request = "callbackWithCode" -> "exchange"
    [] OTHER -> "catch"

handleRequest_exchangesWithoutCode(request) ==
  CASE request = "malformed" -> "catch"
    [] request = "otherPath" -> "ignore"
    [] OTHER -> "exchange"

\* The branch the request handler takes.
handleRequest(request) ==
  CASE request = "malformed" -> "catch"
    [] request = "otherPath" -> "ignore"
    [] request = "callbackNoCode" -> "noCode"
    [] OTHER -> "exchange"

saveGoogleTokens(account, accessToken, hasExpiry, expiryDate) ==
  [exists |-> TRUE, parses |-> TRUE, account |-> account, accessToken |-> accessToken,
   hasExpiry |-> hasExpiry, expiresOn |-> IF hasExpiry THEN expiryDate ELSE 0]

\* isExpired: tokenData.expiryDate && Date.now() > tokenData.expiryDate,
\* which is undefined when the file holds no expiryDate.
getGoogleAccount(tok, t) ==
  IF tok.exists /\ tok.parses
    THEN [NoReply EXCEPT !.op = "getAccount", !.success = TRUE,
                         !.account = tok.account,
                         !.isExpired = IF ~tok.hasExpiry THEN "undefined"
                                       ELSE IF t > tok.expiresOn THEN "true"
                                       ELSE "false",
                         !.fileOk = TRUE,
                         !.sessionLeft = TRUE,
                         !.due = (tok.hasExpiry /\ t >= tok.expiresOn)]
    ELSE [NoReply EXCEPT !.op = "getAccount", !.sessionLeft = tok.exists]

GFailure(reason) ==
  [NoReply EXCEPT !.op = "signIn", !.error = TRUE, !.reason = reason]

\* resolve(value): the first call settles the promise, later calls do
\* nothing.
Resolve1(result, value) == IF result.op = "none" THEN value ELSE result

\* server.close(): an open listener stops listening.
Close(listener) == IF listener = "open" THEN "closed" ELSE listener

\* The main process is there: the kill step of signInWithGoogle has not
\* killed it.
GAlive == gFlow.listener # "killed"

\* execSync('lsof -ti:8089 | xargs kill -9 2>/dev/null || true'): every
\* process lsof finds with a socket on port 8089 gets SIGKILL.  A listener
\* of the shell itself makes the shell one of them.
killPort(listener, lsof) ==
  IF listener = "open" /\ lsof THEN "killed" ELSE listener

\* google-sign-in: signInWithGoogle up to the end of the promise executor:
\* the kill step, then the listener is created and asked to listen and the
\* timer is set.  Nothing looks whether an earlier call is still waiting.
\* lsof says whether the kill step finds the holders of the port (the
\* command is missing on some platforms); a port still held by the
\* listener of the earlier call fails the bind (EADDRINUSE).
GSignIn ==
  /\ GAlive
  /\ gCalls < MaxFlows
  /\ gFlow.listener # "binding"
  /\ gCalls' = gCalls + 1
  /\ gClient' = TRUE
  /\ \E lsof \in BOOLEAN :
       LET busy == gFlow.id # 0 /\ gResult.op = "none"
           port == killPort(gFlow.listener, lsof)
       IN  /\ gFlow.listener # "open" => lsof
           /\ IF port = "killed"
                THEN /\ gFlow' = [gFlow EXCEPT !.listener = "killed",
                                               !.overlap = TRUE]
                     /\ UNCHANGED <<gResult, gOrphans>>
                ELSE /\ gFlow' = [NoFlow EXCEPT
                                    !.id = gCalls + 1,
                                    !.listener = IF port = "open" THEN "failed"
                                                 ELSE "binding",
                                    !.uncaught = (port = "open"),
                                    !.timer = "pending",
                                    !.overlap = busy]
                     /\ gResult' = NoReply
                     /\ gOrphans' = gOrphans + gFlow.inflight
  /\ UNCHANGED <<shellVars, storeVars, msVars, gTokens, gReply>>

\* The listen callback: the consent page is opened in the browser;
\* generateAuthUrl throws if a sign-out has cleared the client meanwhile.
GListening ==
  /\ gFlow.listener = "binding"
  /\ gFlow' = [gFlow EXCEPT !.listener = "open", !.browser = gClient,
                            !.uncaught = ~gClient]
  /\ UNCHANGED <<shellVars, storeVars, msVars, gClient, gTokens, gCalls, gResult,
                 gOrphans, gReply>>

\* The port cannot be bound: the server emits 'error', which nothing
\* handles.
GBindFailed ==
  /\ gFlow.listener = "binding"
  /\ gFlow' = [gFlow EXCEPT !.listener = "failed", !.uncaught = TRUE]
  /\ UNCHANGED <<shellVars, storeVars, msVars, gClient, gTokens, gCalls, gResult,
                 gOrphans, gReply>>

\* A request reaches the listener: the handler runs to its first await, or
\* to its end when it has none.
GRequest ==
  /\ gFlow.listener = "open"
  /\ gFlow.requests < MaxRequests
  /\ \E request \in Requests :
       LET branch == IF handleRequest(request) = "exchange" /\ ~gClient
                       THEN "catch"
                       ELSE handleRequest(request)
           first == IF gFlow.firstCallback = "none" /\ request = "callbackNoCode"
                      THEN "noCode"
                    ELSE IF gFlow.firstCallback = "none" /\ request = "callbackWithCode"
                      THEN "code"
                    ELSE gFlow.firstCallback
           seen == [gFlow EXCEPT !.requests = @ + 1, !.firstCallback = first,
                                  !.strays = IF request = "otherPath" THEN @ + 1
                                             ELSE @]
       IN  CASE branch = "ignore" ->
                  /\ gFlow' = seen
                  /\ UNCHANGED gResult
             [] branch = "exchange" ->
                  /\ gFlow' = [seen EXCEPT !.inflight = @ + 1, !.exchanges = @ + 1]
                  /\ UNCHANGED gResult
             [] branch = "noCode" ->
                  /\ gFlow' = [seen EXCEPT !.errorPages = @ + 1,
                                           !.listener = Close(@),
                                           !.closes = @ + 1, !.resolves = @ + 1]
                  /\ gResult' = Resolve1(gResult, GFailure("No authorization code"))
             [] OTHER ->
                  /\ gFlow' = [seen EXCEPT !.failPages = @ + 1,
                                           !.listener = Close(@),
                                           !.closes = @ + 1, !.resolves = @ + 1]
                  /\ gResult' = Resolve1(gResult, GFailure("error"))
  /\ UNCHANGED <<shellVars, storeVars, msVars, gClient, gTokens, gCalls, gOrphans,
                 gReply>>

\* getToken, userinfo.get and saveGoogleTokens of one handler are over:
\* the session is written, the success page sent, the listener closed and
\* the promise resolved; or one of them threw into the catch.
GExchangeDone ==
  /\ GAlive
  /\ gFlow.inflight > 0
  /\ \E ok \in BOOLEAN, a \in Accounts, hasExpiry \in BOOLEAN :
       /\ ok => gClient
       /\ ~ok => (a = CHOOSE x \in Accounts : TRUE) /\ hasExpiry
       /\ gTokens' = IF ok
                       THEN saveGoogleTokens(a, gFlow.id, hasExpiry, now + TokenLife)
                       ELSE gTokens
       /\ gFlow' = [gFlow EXCEPT !.inflight = @ - 1,
                                 !.saves = IF ok THEN @ + 1 ELSE @,
                                 !.failPages = IF ok THEN @ ELSE @ + 1,
                                 !.listener = Close(@),
                                 !.closes = @ + 1, !.resolves = @ + 1]
       /\ gResult' = Resolve1(gResult,
                       IF ok
                         THEN [NoReply EXCEPT !.op = "signIn", !.success = TRUE,
                                              !.account = a, !.fileOk = TRUE,
                                              !.sessionLeft = TRUE]
                         ELSE GFailure("error"))
  /\ UNCHANGED <<shellVars, storeVars, msVars, gClient, gCalls, gOrphans, gReply>>

\* The same for a handler of an earlier call.
GOrphanDone ==
  /\ GAlive
  /\ gOrphans > 0
  /\ gOrphans' = gOrphans - 1
  /\ \E ok \in BOOLEAN, a \in Accounts, hasExpiry \in BOOLEAN :
       /\ ok => gClient
       /\ ~ok => (a = CHOOSE x \in Accounts : TRUE) /\ hasExpiry
       /\ gTokens' = IF ok
                       THEN saveGoogleTokens(a, gFlow.id, hasExpiry, now + TokenLife)
                       ELSE gTokens
  /\ UNCHANGED <<shellVars, storeVars, msVars, gClient, gCalls, gFlow, gResult, gReply>>

\* The five-minute timer fires: server.close() and resolve, whatever has
\* happened before.
GTimeout ==
  /\ GAlive
  /\ gFlow.timer = "pending"
  /\ gFlow.listener # "binding"
  /\ gFlow' = [gFlow EXCEPT !.timer = "fired", !.listener = Close(@),
                            !.closes = @ + 1, !.resolves = @ + 1]
  /\ gResult' = Resolve1(gResult, GFailure("Sign-in timeout"))
  /\ UNCHANGED <<shellVars, storeVars, msVars, gClient, gTokens, gCalls, gOrphans,
                 gReply>>

\* google-get-account.
GGetAccount ==
  /\ GAlive
  /\ gReply' = getGoogleAccount(gTokens, now)
  /\ UNCHANGED <<shellVars, storeVars, msVars, gClient, gTokens, gCalls, gFlow, gResult,
                 gOrphans>>

\* google-sign-out: unlink google-tokens.json and drop the client.
GSignOut ==
  /\ GAlive
  /\ \E unlinkOk \in BOOLEAN :
       IF gTokens.exists /\ ~unlinkOk
         THEN /\ gReply' = [NoReply EXCEPT !.op = "signOut", !.error = TRUE,
                                           !.reason = "error", !.sessionLeft = TRUE]
              /\ UNCHANGED <<gTokens, gClient>>
         ELSE /\ gTokens' = NoTokens
              /\ gClient' = FALSE
              /\ gReply' = [NoReply EXCEPT !.op = "signOut", !.success = TRUE]
  /\ UNCHANGED <<shellVars, storeVars, msVars, gCalls, gFlow, gResult, gOrphans>>

\* Time passes.  The Google code reads the clock only against the expiry of
\* a persisted session, so the clock is moved only while there is one.
GTick ==
  /\ gTokens.exists /\ gTokens.hasExpiry
  /\ now < MaxTime
  /\ now' = now + 1
  /\ UNCHANGED <<shellVars, storeVars, gVars, msalClient, msCache, msTokens, envEmail,
                 msCalls, msCall, msResult, msDialogs, msReply>>

\* google-tokens.json is damaged on disk.
GTokensDamaged ==
  /\ gTokens.exists /\ gTokens.parses
  /\ gTokens' = [NoTokens EXCEPT !.exists = TRUE]
  /\ UNCHANGED <<shellVars, storeVars, msVars, gClient, gCalls, gFlow, gResult, gOrphans,
                 gReply>>

GInit ==
  /\ ShellRunning
  /\ config = saveDataFolderPath(NoConfig, defaultFolder)
  /\ dirs = [f \in Folders |-> TRUE]
  /\ env = WriteTemplate([f \in Folders |-> "none"], defaultFolder)
  /\ startDisk = Disk(NoConfig, [f \in Folders |-> f # defaultFolder],
                      [f \in Folders |-> "none"])
  /\ BrokerIdle

GNext ==
  \/ GSignIn
  \/ GListening
  \/ GBindFailed
  \/ GRequest
  \/ GExchangeDone
  \/ GOrphanDone
  \/ GTimeout
  \/ GGetAccount
  \/ GSignOut
  \/ GTick
  \/ GTokensDamaged

SpecGoogle == GInit /\ [][GNext]_allVars

GTypeOK ==
  /\ gClient \in BOOLEAN
  /\ gCalls \in 0..MaxFlows
  /\ gFlow.id \in 0..gCalls
  /\ gFlow.listener \in {"none", "binding", "open", "closed", "failed", "killed"}
  /\ gFlow.overlap \in BOOLEAN
  /\ gFlow.timer \in {"none", "pending", "fired"}
  /\ gFlow.requests \in 0..MaxRequests
  /\ gFlow.inflight \in 0..MaxRequests
  /\ gOrphans \in 0..(MaxFlows * MaxRequests)
  /\ gResult.op \in {"none", "signIn"}
  /\ gReply.op \in {"none", "getAccount", "signOut"}

----------------------------------------------------------------------------
Spec == Init /\ [][Next]_allVars

TypeOK ==
  /\ platform \in Platforms
  /\ gotTheLock \in BOOLEAN
  /\ launches \in 1..MaxLaunches
  /\ config \in ConfigFiles
  /\ dirs \in [Folders -> BOOLEAN]
  /\ env \in [Folders -> EnvContents]
  /\ \A f \in Folders : env[f] # "none" => dirs[f]
  /\ pc \in {"loaded", "failed", "exited"} \cup AfterReady
  /\ quitting \in BOOLEAN
  /\ dialogs \subseteq {"welcome", "folder", "browse", "complete"}
  /\ wizFolder \in DataFolders \cup {"unset"}
  /\ envPath \in Folders \cup {"null", "unset"}
  /\ worker \in [proc : {"undefined", "set"},
                 state : {"none", "running", "failed", "exited"},
                 killed : BOOLEAN, err : BOOLEAN]
  /\ startPromise \in {"none", "pending", "resolved", "rejected"}
  /\ rejectReason \in {"none", "timeout", "childError"}
  /\ polls \in 0..(maxAttempts + 1)
  /\ pollState \in {"idle", "inflight", "timer"}
  /\ okAt \in 0..(maxAttempts + 1)
  /\ windows \in 0..2

----------------------------------------------------------------------------
(* Health gate: C1, C2, C3 *)

\* C1: for every k in 1..60, when the health endpoint first answers 200 on
\* the k-th poll, startPythonServer has resolved, exactly k polls have been
\* issued, and none is issued afterwards (no request in flight, no retry
\* timer pending, in every later state).
C1_HealthGateSuccess ==
  okAt \in 1..maxAttempts =>
    /\ startPromise = "resolved"
    /\ polls = okAt
    /\ pollState = "idle"

\* The 200 arrives on the last poll of the budget of 60, after 59 failures.
C1_Witness ==
  /\ okAt = maxAttempts
  /\ polls = maxAttempts
  /\ startPromise = "resolved"
  /\ windows > 0

\* C2: at most 60 polls are issued; a 200 is accepted only on one of the
\* first 60 polls; the timeout rejection comes once 60 polls have failed.
C2_BudgetIsSixtyPolls ==
  /\ polls <= maxAttempts
  /\ (okAt # 0 => okAt <= maxAttempts)
  /\ (rejectReason = "timeout" => polls = maxAttempts)

\* C3 as stated: startPythonServer is rejected only when the polling budget
\* has been used up.
C3_OnlyBudgetRejects ==
  startPromise = "rejected" =>
    /\ rejectReason = "timeout"
    /\ polls >= maxAttempts
    /\ pollState = "idle"

\* C3, amended: startPythonServer is rejected only by the exhaustion of the
\* polling budget (every poll failed and waitForServer has no retry left) or
\* by the 'error' event of a child that could not be started; a failed poll
\* with budget left, a non-200 response and the exit of the worker never
\* reject it.
C3_RejectOnlyOnBudgetOrChildError ==
  startPromise = "rejected" =>
    \/ /\ rejectReason = "timeout"
       /\ polls > maxAttempts
       /\ okAt = 0
       /\ pollState = "idle"
    \/ /\ rejectReason = "childError"
       /\ worker.state = "failed"

\* The worker has exited, every poll failed, and only the exhausted budget
\* rejected the start.
C3_Witness ==
  /\ startPromise = "rejected"
  /\ rejectReason = "timeout"
  /\ worker.state = "exited"
  /\ errorBox

----------------------------------------------------------------------------
(* Startup ordering and shutdown: C4, C5, C6 *)

\* C4: a window exists only after the health gate has passed.
C4_WindowOnlyAfterHealthGate ==
  windows > 0 => startPromise = "resolved"

\* C5: when the shell has exited, a worker it spawned that is still running
\* has been sent the termination signal.
C5_WorkerSignalledBeforeExit ==
  (pc = "exited" /\ worker.proc = "set" /\ worker.state = "running") => worker.killed

\* C6: the kill step raises no error; on a worker that was never spawned,
\* has exited or has already been signalled it changes nothing; and running
\* it twice (the 'window-all-closed' and the 'before-quit' handler one after
\* the other) leaves the state that running it once leaves.
C6_StopIdempotent ==
  /\ ~KillStep(worker).err
  /\ KillStep(KillStep(worker)) = KillStep(worker)
  /\ (worker.proc = "undefined" \/ worker.state # "running" \/ worker.killed)
       => KillStep(worker) = worker

\* Both handlers have run, one after the other, on a running worker.
C6_Witness ==
  /\ quitCause = "windowsClosed"
  /\ worker.killed
  /\ worker.state = "running"

----------------------------------------------------------------------------
(* Single instance and the wizard: C7, C8, C9, C10 *)

\* C7: an instance that did not get the single-instance lock shows no wizard
\* dialog, writes neither config.json nor a settings file, spawns no worker,
\* issues no health poll and creates no window.
C7_SecondInstanceInert ==
  ~gotTheLock =>
    /\ dialogs = {}
    /\ ~wroteConfig
    /\ ~wroteEnv
    /\ worker.proc = "undefined"
    /\ polls = 0
    /\ windows = 0

\* C8: after Quit at the Welcome dialog or Cancel Setup at the data-location
\* dialog, the run writes no config.json, creates no settings file, spawns
\* no worker, issues no health poll and creates no window.
C8_CancelAbortsStartup ==
  cancelled =>
    /\ ~wroteConfig
    /\ ~wroteEnv
    /\ worker.proc = "undefined"
    /\ polls = 0
    /\ windows = 0

\* The folder getDataFolderPath resolved to when this process started.
StartFolder == getDataFolderPath(startDisk.config, startDisk.dirs)

\* C9 as stated: whenever config.json exists at startup, no wizard dialog is
\* shown, whatever the state of the data directory and the settings file.
C9_NeverRepromptsWithConfig ==
  startDisk.config.exists => dialogs = {}

\* C9, amended: when config.json exists at startup and a settings file
\* exists at the resolved path or in the legacy location, no wizard dialog
\* is shown.
C9_NoRepromptWhenSettingsFound ==
  ( /\ startDisk.config.exists
    /\ \/ startDisk.env[StartFolder] # "none"
       \/ startDisk.env[getAppConfigPath] # "none" )
  => dialogs = {}

\* A later run with config.json and the settings file in place reaches the
\* window without a dialog.
C9_Witness ==
  /\ launches > 1
  /\ startDisk.config.exists
  /\ startDisk.env[StartFolder] # "none"
  /\ pc = "running"
  /\ dialogs = {}

\* C10: a settings file that exists when the process starts has the same
\* content for as long as the process lives, in every folder (so also at the
\* resolved path): neither the template nor the legacy copy replaces it.
C10_SettingsNeverOverwritten ==
  \A f \in Folders : startDisk.env[f] # "none" => env[f] = startDisk.env[f]

\* The wizard ran through its template step on a folder that held the user's
\* settings file, and the file is still the user's.
C10_Witness ==
  /\ "complete" \in dialogs
  /\ wizFolder # "unset"
  /\ startDisk.env[wizFolder] = "user"
  /\ env[wizFolder] = "user"

----------------------------------------------------------------------------
(* Legacy migration: C11 *)

\* C11: whenever the process starts with a settings file in the legacy
\* location (the application's own config directory) and bootstrap arrives
\* at a data folder that had no settings file, the settings file of that
\* data folder is a copy of the legacy file, never the template; this
\* includes the first run, where the data folder is the one the wizard
\* prepared.
C11_LegacyBeatsTemplate ==
  \A f \in Folders :
    ( /\ startDisk.env[getAppConfigPath] # "none"
      /\ startDisk.env[f] = "none"
      /\ \/ envPath = f
         \/ wroteConfig /\ wizFolder = f )
    => env[f] = startDisk.env[getAppConfigPath]

----------------------------------------------------------------------------
(* Configuration store: C12, C13 *)

\* C12 as stated: with no config.json, getDataFolderPath returns the folder
\* the wizard offers as its default location.
C12_DefaultIsWizardDefault ==
  (~config.exists /\ resolved # "none") => resolved = defaultFolder

\* C12, amended: with no config.json, getDataFolderPath returns the
\* application's own config directory (userData), which is not the folder
\* the wizard offers as its default location.
C12_DefaultIsAppConfigPath ==
  (~config.exists /\ resolved # "none") =>
    /\ resolved = getAppConfigPath
    /\ resolved # defaultFolder

\* getDataFolderPath was called with no config.json on disk while the
\* wizard's default folder exists.
C12_Witness ==
  /\ ~config.exists
  /\ dirs[defaultFolder]
  /\ resolved = getAppConfigPath

\* C13 as stated: after saveDataFolderPath(p), every getDataFolderPath call
\* returns p and the other fields of config.json are the ones it held
\* before.
C13_RoundTripAlways ==
  lastSaved # "unset" =>
    /\ resolved \in {"none", lastSaved}
    /\ config.rest = savedRest

\* C13, amended: after saveDataFolderPath(p), and until config.json is
\* written by something else, a getDataFolderPath call returns p while the
\* folder p exists and the application's config directory while it does
\* not; the other fields of a config.json that parsed are the ones it held
\* before the call.
C13_RoundTripWhileFolderExists ==
  lastSaved # "unset" =>
    /\ resolved \in {"none", IF dirs[lastSaved] THEN lastSaved ELSE getAppConfigPath}
    /\ config.rest = savedRest

\* A path was saved into a config.json that held other fields, the folder
\* was removed afterwards and getDataFolderPath fell back.
C13_Witness ==
  /\ lastSaved # "unset"
  /\ savedRest # "none"
  /\ config.rest = savedRest
  /\ ~dirs[lastSaved]
  /\ resolved = getAppConfigPath

----------------------------------------------------------------------------
(* Microsoft sign-in: C14, C15, C16, C17, C18 *)

\* C14: a signInWithMicrosoft call that finds a cached account starts with
\* the silent acquisition; a device code is issued only when there was no
\* cached account or the silent attempt has failed; the clipboard is
\* written and the browser opened only for a call that issued a device
\* code, so a call that succeeded silently did none of the three.
C14_SilentFirst ==
  msCall.op = "signIn" =>
    /\ msCall.hadAccount => msCall.silentTried
    /\ msCall.codeIssued => (~msCall.hadAccount \/ msCall.silentFailed)
    /\ (msCall.copied \/ msCall.opened) => msCall.codeIssued
    /\ (msCall.silentTried /\ ~msCall.silentFailed /\ msCall.succeeded > 0) =>
         (~msCall.codeIssued /\ ~msCall.copied /\ ~msCall.opened)

\* A sign-in found a cached account and returned success from the silent
\* attempt.
C14_Witness ==
  /\ msCall.op = "signIn"
  /\ msCall.hadAccount
  /\ msCall.silentTried
  /\ msCall.at = "idle"
  /\ msResult.success
  /\ ~msCall.codeIssued

\* C15: a signInWithMicrosoft call reports nothing while it is under way
\* and exactly one outcome once it has returned, a success or a failure
\* with an error, never both and never a second one.
C15_OneOutcome ==
  msCall.op = "signIn" =>
    /\ msCall.succeeded + msCall.failed <= 1
    /\ (msCall.at = "idle") <=> (msCall.succeeded + msCall.failed = 1)
    /\ msResult.op = "signIn" =>
         /\ msResult.success <=> (msCall.succeeded = 1)
         /\ msResult.error <=> (msCall.failed = 1)
         /\ ~(msResult.success /\ msResult.error)

\* A sign-in whose silent attempt failed issued a device code and returned
\* a failure.
C15_Witness ==
  /\ msCall.op = "signIn"
  /\ msCall.silentFailed
  /\ msCall.codeIssued
  /\ msCall.at = "idle"
  /\ msCall.failed = 1
  /\ msResult.error

\* C16: whenever signInWithMicrosoft returns success for an account, at
\* that moment ms-tokens.json holds that account with the token and expiry
\* just acquired and MS_USER_EMAIL in the settings file is the account's
\* address.
C16_SuccessPersistsSession ==
  (msResult.op = "signIn" /\ msResult.success) =>
    (msResult.fileOk /\ msResult.envOk)

\* C17: every answer of a broker operation is a success or a failure that
\* carries an error string.
C17_DiscriminatedResults ==
  \A r \in {msResult, msReply} :
    r.op # "none" => (r.success \/ r.error)

\* C18: signOutMicrosoft always answers success and leaves no session file
\* behind, so that getMicrosoftAccount reports no account afterwards.
C18_SignOutAuthoritative ==
  msReply.op = "signOut" =>
    /\ msReply.success
    /\ ~msReply.sessionLeft

----------------------------------------------------------------------------
(* Google sign-in: C19, C20 *)

\* C19: getAccount answers success exactly when a session file that parses
\* is on disk, and then isExpired is a boolean that is true exactly when
\* the clock has reached or passed the persisted expiry.
C19_AccountQuery ==
  gReply.op = "getAccount" =>
    /\ gReply.success <=> gReply.fileOk
    /\ gReply.success =>
         /\ gReply.isExpired \in {"true", "false"}
         /\ (gReply.isExpired = "true") <=> gReply.due

\* C20: when the first request to /oauth2callback carries no code, the
\* error page has been sent, the promise has resolved as the failure 'No
\* authorization code', the listener is closed, no code has been exchanged
\* and no session has been written by this call, for as long as the call is
\* the latest one.
C20_CallbackWithoutCode ==
  gFlow.firstCallback = "noCode" =>
    /\ gFlow.errorPages = 1
    /\ gResult.op = "signIn"
    /\ ~gResult.success
    /\ gResult.error
    /\ gResult.reason = "No authorization code"
    /\ gFlow.listener = "closed"
    /\ gFlow.exchanges = 0
    /\ gFlow.inflight = 0
    /\ gFlow.saves = 0

\* The first callback request came without a code, after a request to
\* another path, and the timer has fired since.
C20_Witness ==
  /\ gFlow.firstCallback = "noCode"
  /\ gFlow.requests = 2
  /\ gFlow.timer = "fired"
  /\ gResult.reason = "No authorization code"

----------------------------------------------------------------------------
(* Google sign-in, timer against callback: C21, C22 *)

\* C21: of the timer and the callback, the first to fire settles the call
\* and the later one does no work: server.close() is executed once per
\* call, and once the call has resolved with 'Sign-in timeout' no session
\* is written by it.
C21_FirstWinsLaterIdle ==
  /\ gFlow.closes <= 1
  /\ (gResult.reason = "Sign-in timeout" => gFlow.saves = 0)

\* C22: the listener honours one callback request per call: at most one
\* code is exchanged and at most one session written, and the call reports
\* success exactly when it has written a session.
C22_SingleShotListener ==
  /\ gFlow.exchanges <= 1
  /\ gFlow.saves <= 1
  /\ (gResult.op = "signIn" => (gResult.success <=> gFlow.saves >= 1))

----------------------------------------------------------------------------
(* Google sign-in, stray requests, termination, bind failure: C23, C24, C25 *)

\* C25: when the listener cannot bind port 8089 the call resolves at once
\* with success false and an error other than the timeout, no uncaught
\* error is raised and no browser is opened.
C25_BindFailureReported ==
  gFlow.listener = "failed" =>
    /\ ~gFlow.uncaught
    /\ ~gFlow.browser
    /\ gResult.op = "signIn"
    /\ ~gResult.success
    /\ gResult.reason # "Sign-in timeout"
    /\ gFlow.timer = "pending"

\* C23: a request for a path other than /oauth2callback changes nothing:
\* the call stays as resolved or unresolved as it was, the listener stays
\* open, the timer keeps running, no exchange is started, no page is sent
\* and the persisted session is untouched; whatever could happen before the
\* request can happen after it.
C23_StrayRequestIgnored ==
  [][gFlow'.strays = gFlow.strays + 1 =>
       /\ gFlow' = [gFlow EXCEPT !.requests = @ + 1, !.strays = @ + 1]
       /\ gFlow'.listener = "open"
       /\ UNCHANGED <<gResult, gTokens, gClient, gCalls, gOrphans, gReply>>]_allVars

\* A stray request came first, and the callback after it was exchanged,
\* written and answered with success.
C23_Witness ==
  /\ gFlow.strays = 1
  /\ gFlow.requests = 2
  /\ gFlow.firstCallback = "code"
  /\ gFlow.saves = 1
  /\ gResult.success
  /\ gTokens.exists

----------------------------------------------------------------------------
(* Startup failure, window and worker, health polling: C27, C28, C30 *)

\* C27: a shell that has exited after a startup failure has shown the
\* error box, has no window and has a non-zero exit code; a shell that has
\* exited for any other reason has exit code 0.
C27_StartupFailureExitsNonZero ==
  pc = "exited" =>
    IF quitCause = "startupError"
      THEN errorBox /\ windows = 0 /\ exitCode(quitCause) # 0
      ELSE exitCode(quitCause) = 0

\* C28: while the application is not quitting, a main window exists only
\* as long as the shell has sent no kill signal to the worker.
C28_NoWindowAfterKill ==
  (windows > 0 /\ ~quitting) => ~worker.killed

C24_EveryCallResolves ==
  /\ (gFlow.id # 0 /\ gResult.op = "none") => (GAlive /\ gFlow.timer = "pending")
  /\ (gResult.op = "signIn" /\ gFlow.requests = gFlow.strays) =>
       (~gResult.success /\ gResult.reason = "Sign-in timeout")
  /\ gResult.op = "signIn" => gFlow.listener \in {"closed", "failed"}

----------------------------------------------------------------------------
(* Google sign-in, overlapping calls: C26, C29 *)

\* C26: sign-in is single-flight: no signInWithGoogle call runs its kill
\* step and sets up its listener while an earlier call is still unresolved.
C26_SingleFlight ==
  ~gFlow.overlap

\* C29: the kill step of signInWithGoogle never kills the shell's own
\* process, whatever an earlier call still holds.
C29_KillStepSparesShell ==
  gFlow.listener # "killed"

====
